---- MODULE Spec2Model ----
(***************************************************************************)
(* A model of the VoFo music server (src/app.py): the users table and its  *)
(* UNIQUE(username) constraint, password hashing, JWT issue and            *)
(* verification, the cookie session, the token_required gate, the search   *)
(* cache, the search/play history tables, and the like registry described  *)
(* by the specification.                                                   *)
(*                                                                         *)
(* Text is a sequence of one-character strings, so that strip() and        *)
(* lower() are computed and not assumed.  Every handler is one action: the *)
(* code before and after its database statements touches only request      *)
(* local data, and the one shared in-process object (search_cache) is read *)
(* and written inside the search action.                                   *)
(***************************************************************************)
EXTENDS Integers, Sequences, FiniteSets, TLC

VARIABLES users, users_id_seq, session, search_cache, search_history,
          play_history, liked_songs, like_unique, like_pending, last

vars == <<users, users_id_seq, session, search_cache, search_history,
          play_history, liked_songs, like_unique, like_pending, last>>

-----------------------------------------------------------------------------
(* Bounds of the model *)

MaxSerial == 3
MaxSearchHistory == 2
MaxPlayHistory == 2
MaxLikedRows == 3
MaxPending == 2

(* Program constants *)

MinPasswordLen == 6
UsernameMaxLen == 50
VideoIdMaxLen == 20
TitleMaxLen == 80
SearchMaxResults == 15
PlayMaxResults == 1

SECRET_KEY == "dev-secret-key-change-in-production"

-----------------------------------------------------------------------------
(* Text: str.strip() and str.lower() *)

RECURSIVE LStrip(_)
LStrip(s) ==
    IF s = <<>> THEN s
    ELSE IF Head(s) = " " THEN LStrip(Tail(s)) ELSE s

RECURSIVE RStrip(_)
RStrip(s) ==
    IF s = <<>> THEN s
    ELSE IF s[Len(s)] = " " THEN RStrip(SubSeq(s, 1, Len(s) - 1)) ELSE s

Strip(s) == RStrip(LStrip(s))

LowerChar(c) ==
    CASE c = "A" -> "a"
      [] c = "B" -> "b"
      [] OTHER -> c

Lower(s) == [i \in 1..Len(s) |-> LowerChar(s[i])]

Repeat(c, n) == [i \in 1..n |-> c]

-----------------------------------------------------------------------------
(* werkzeug.security: salted one-way password hash *)

CharCode(c) ==
    CASE c = "a" -> 97 [] c = "b" -> 98 [] c = "p" -> 112 [] c = "w" -> 119
      [] c = "s" -> 115 [] c = "e" -> 101 [] c = "c" -> 99 [] c = "r" -> 114
      [] c = "t" -> 116 [] c = "1" -> 49 [] c = "2" -> 50 [] c = "A" -> 65
      [] c = "B" -> 66 [] c = " " -> 32 [] c = "x" -> 120
      [] OTHER -> 63

RECURSIVE Digest(_, _)
Digest(h, s) ==
    IF s = <<>> THEN h
    ELSE Digest((h * 31 + CharCode(Head(s))) % 65521, Tail(s))

Salts == {11, 23}

generate_password_hash(password, salt) ==
    [salt |-> salt, digest |-> Digest(salt, password)]

(* a verification that accepts every password *)
check_password_hash_Any(pwhash, password) ==
    pwhash.salt \in Salts

check_password_hash(pwhash, password) ==
    Digest(pwhash.salt, password) = pwhash.digest

-----------------------------------------------------------------------------
(* jwt.encode / jwt.decode with HS256: the signature binds key and payload *)

Sign(key, user_id, username) ==
    [k |-> key, uid |-> user_id, un |-> username]

NoSig == Sign("", 0, <<>>)

NoTok == [kind |-> "empty", user_id |-> 0, username |-> <<>>, sig |-> NoSig]

Garbage == [kind |-> "garbage", user_id |-> 0, username |-> <<>>, sig |-> NoSig]

jwt_encode(user_id, username, key) ==
    [kind |-> "jwt", user_id |-> user_id, username |-> username,
     sig |-> Sign(key, user_id, username)]

jwt_decode_ok(tok, key) ==
    /\ tok.kind = "jwt"
    /\ tok.sig = Sign(key, tok.user_id, tok.username)

Truthy(tok) == tok.kind # "empty"

-----------------------------------------------------------------------------
(* The users table: id SERIAL PRIMARY KEY, username VARCHAR(50) UNIQUE *)

UserByName(tbl, username) ==
    {i \in 1..Len(tbl) : tbl[i].username = username}

UserById(tbl, id) ==
    {i \in 1..Len(tbl) : tbl[i].id = id}

(* the INSERT as it would behave without the UNIQUE constraint *)
InsertUserOutcome_NoUnique(tbl, username) ==
    IF Len(username) > UsernameMaxLen THEN "DataError" ELSE "inserted"

(* outcome of INSERT INTO users ... RETURNING id on a working connection *)
InsertUserOutcome(tbl, username) ==
    IF Len(username) > UsernameMaxLen THEN "DataError"
    ELSE IF UserByName(tbl, username) # {} THEN "IntegrityError"
    ELSE "inserted"

-----------------------------------------------------------------------------
(* The cookie session and the Authorization header *)

NoSession == [has |-> FALSE, user_id |-> 0, token |-> NoTok, username |-> <<>>]

NewSession(user_id, token, username) ==
    [has |-> TRUE, user_id |-> user_id, token |-> token, username |-> username]

NoHeader == [scheme |-> "none", tok |-> NoTok]

(* get_db_connection() and the first statement on the connection *)
DbOutcomes == {"ok", "down", "fail"}

ErrorText(kind) ==
    CASE kind = "fail" -> "OperationalError: server closed the connection unexpectedly"
      [] kind = "DataError" -> "DataError: value too long for type character varying"
      [] kind = "IntegrityError" -> "IntegrityError: violates constraint"
      [] OTHER -> ""

ErrorTexts == {ErrorText("fail"), ErrorText("DataError"), ErrorText("IntegrityError")}

-----------------------------------------------------------------------------
(* The record of the request handled last and of its response *)

Blank ==
    [op |-> "init", username |-> <<>>, password |-> <<>>, hdr |-> NoHeader,
     q |-> <<>>, url |-> <<>>, gdb |-> "none", db |-> "none", page |-> "none",
     status |-> 0, msg |-> "", body |-> <<>>, token |-> NoTok,
     bodyRan |-> FALSE, called |-> FALSE, raised |-> FALSE, leaked |-> 0,
     stream |-> <<>>, stats |-> <<0, 0>>,
     user |-> 0, song |-> "", result |-> ""]

-----------------------------------------------------------------------------
(* Inputs *)

Pw1 == <<"s", "e", "c", "r", "e", "t", "1">>
Pw2 == <<"s", "e", "c", "r", "e", "t", "2">>

UsernameInputs == {<<>>, <<"a">>, <<" ", "a">>, <<"b">>, Repeat("x", UsernameMaxLen + 1)}

PasswordInputs == {<<>>, <<"p", "w">>, Pw1, Pw2}

Bearer(tok) == [scheme |-> "Bearer", tok |-> tok]

(* tokens a client can present: issued ones, ones signed with another key, *)
(* ones naming a user id with no row, a payload altered after signing, and *)
(* text that is no JWT at all                                              *)
TokenInputs ==
    {jwt_encode(1, <<"a">>, SECRET_KEY),
     jwt_encode(1, <<"a">>, "another-secret"),
     jwt_encode(2, <<"b">>, SECRET_KEY),
     [jwt_encode(2, <<"b">>, SECRET_KEY) EXCEPT !.user_id = 1],
     Garbage}

HeaderInputs ==
    {NoHeader, Bearer(NoTok), [scheme |-> "Basic", tok |-> Garbage]}
        \cup {Bearer(t) : t \in TokenInputs}

SearchHeaderInputs ==
    {NoHeader, [scheme |-> "Basic", tok |-> Garbage],
     Bearer(jwt_encode(1, <<"a">>, SECRET_KEY)),
     Bearer(jwt_encode(1, <<"a">>, "another-secret")),
     Bearer(jwt_encode(2, <<"b">>, SECRET_KEY))}

-----------------------------------------------------------------------------
(* POST /api/register *)

Register(username_in, password_in, salt, dbc) ==
    LET username == Strip(username_in)
        password == Strip(password_in)
        req == [Blank EXCEPT !.op = "register", !.username = username_in,
                             !.password = password_in]
        outcome == InsertUserOutcome(users, username)
        user_id == users_id_seq
        token == jwt_encode(user_id, username, SECRET_KEY)
    IN  /\ users_id_seq <= MaxSerial
        /\ UNCHANGED <<search_cache, search_history, play_history,
                       liked_songs, like_unique, like_pending>>
        /\ IF username = <<>> \/ password = <<>>
           THEN /\ last' = [req EXCEPT !.status = 400,
                                !.msg = "Username and password are required"]
                /\ UNCHANGED <<users, users_id_seq, session>>
           ELSE IF Len(password) < MinPasswordLen
           THEN /\ last' = [req EXCEPT !.status = 400,
                                !.msg = "Password must be at least 6 characters"]
                /\ UNCHANGED <<users, users_id_seq, session>>
           ELSE IF dbc = "down"
           THEN /\ last' = [req EXCEPT !.db = dbc, !.status = 500,
                                !.msg = "Database connection failed"]
                /\ UNCHANGED <<users, users_id_seq, session>>
           ELSE IF dbc = "fail" \/ outcome = "DataError"
           THEN /\ last' = [req EXCEPT !.db = dbc, !.status = 500,
                                !.msg = "Registration failed"]
                /\ UNCHANGED <<users, users_id_seq, session>>
           ELSE IF outcome = "IntegrityError"
           THEN /\ last' = [req EXCEPT !.db = dbc, !.status = 400,
                                !.msg = "Username already exists"]
                /\ users_id_seq' = users_id_seq + 1
                /\ UNCHANGED <<users, session>>
           ELSE /\ users' = Append(users,
                                [id |-> user_id, username |-> username,
                                 password_hash |->
                                     generate_password_hash(password, salt)])
                /\ users_id_seq' = users_id_seq + 1
                /\ session' = NewSession(user_id, token, username)
                /\ last' = [req EXCEPT !.db = dbc, !.status = 200,
                                !.msg = "Registration successful",
                                !.token = token, !.user = user_id]

(* POST /api/login *)

Login(username_in, password_in, dbc) ==
    LET username == Strip(username_in)
        password == Strip(password_in)
        req == [Blank EXCEPT !.op = "login", !.username = username_in,
                             !.password = password_in]
        rows == UserByName(users, username)
        user == users[CHOOSE i \in rows : TRUE]
        token == jwt_encode(user.id, user.username, SECRET_KEY)
    IN  /\ UNCHANGED <<users, users_id_seq, search_cache, search_history,
                       play_history, liked_songs, like_unique, like_pending>>
        /\ IF username = <<>> \/ password = <<>>
           THEN /\ last' = [req EXCEPT !.status = 400,
                                !.msg = "Username and password are required"]
                /\ UNCHANGED session
           ELSE IF dbc = "down"
           THEN /\ last' = [req EXCEPT !.db = dbc, !.status = 500,
                                !.msg = "Database connection failed"]
                /\ UNCHANGED session
           ELSE IF dbc = "fail"
           THEN /\ last' = [req EXCEPT !.db = dbc, !.status = 500,
                                !.msg = "Login failed", !.leaked = 1]
                /\ UNCHANGED session
           ELSE IF rows # {} /\ check_password_hash(user.password_hash, password)
           THEN /\ session' = NewSession(user.id, token, user.username)
                /\ last' = [req EXCEPT !.db = dbc, !.status = 200,
                                !.msg = "Login successful",
                                !.token = token, !.user = user.id]
           ELSE /\ last' = [req EXCEPT !.db = dbc, !.status = 401,
                                !.msg = "Invalid username or password"]
                /\ UNCHANGED session

(* POST /api/logout *)

Logout ==
    /\ session' = NoSession
    /\ last' = [Blank EXCEPT !.op = "logout", !.status = 200,
                     !.msg = "Logged out successfully"]
    /\ UNCHANGED <<users, users_id_seq, search_cache, search_history,
                   play_history, liked_songs, like_unique, like_pending>>

-----------------------------------------------------------------------------
(* token_required: the token a request is judged by, and the verdict *)

(* auth_header.split(' ')[1] when the header starts with 'Bearer ' *)
HeaderTokenSplit(hdr) ==
    IF hdr.scheme = "Bearer" THEN hdr.tok ELSE NoTok

(* request.headers.get('Authorization', '').replace('Bearer ', '') *)
HeaderTokenReplace(hdr) ==
    CASE hdr.scheme = "none" -> NoTok
      [] hdr.scheme = "Bearer" -> hdr.tok
      [] OTHER -> Garbage

(* a gate that prefers the cookie session to the Authorization header *)
GateToken_SessionFirst(hdr, sess) ==
    IF sess.has THEN sess.token
    ELSE IF Truthy(HeaderTokenSplit(hdr)) THEN HeaderTokenSplit(hdr)
    ELSE NoTok

GateToken(hdr, sess) ==
    IF Truthy(HeaderTokenSplit(hdr)) THEN HeaderTokenSplit(hdr)
    ELSE IF sess.has THEN sess.token
    ELSE NoTok

Denied(msg, leaked) ==
    [pass |-> FALSE, status |-> 401, msg |-> msg, leaked |-> leaked,
     current_user |-> [id |-> 0, username |-> <<>>]]

(* a gate that trusts the signature and never looks the user up *)
token_required_NoLookup(hdr, sess, tbl, gdb) ==
    LET token == GateToken(hdr, sess)
    IN  IF ~Truthy(token) THEN Denied("Token is missing", 0)
        ELSE IF ~jwt_decode_ok(token, SECRET_KEY) THEN Denied("Token is invalid", 0)
        ELSE [pass |-> TRUE, status |-> 0, msg |-> "", leaked |-> 0,
              current_user |-> [id |-> token.user_id,
                                username |-> token.username]]

token_required(hdr, sess, tbl, gdb) ==
    LET token == GateToken(hdr, sess)
        rows == UserById(tbl, token.user_id)
        user == tbl[CHOOSE i \in rows : TRUE]
    IN  IF ~Truthy(token) THEN Denied("Token is missing", 0)
        ELSE IF ~jwt_decode_ok(token, SECRET_KEY) THEN Denied("Token is invalid", 0)
        ELSE IF gdb = "down" THEN Denied("Token is invalid", 0)
        ELSE IF gdb = "fail" THEN Denied("Token is invalid", 1)
        ELSE IF rows = {} THEN Denied("Token is invalid", 0)
        ELSE [pass |-> TRUE, status |-> 0, msg |-> "", leaked |-> 0,
              current_user |-> [id |-> user.id, username |-> user.username]]

(* GET /api/check-auth *)

CheckAuth(hdr, dbc) ==
    LET token == IF Truthy(HeaderTokenReplace(hdr)) THEN HeaderTokenReplace(hdr)
                 ELSE IF session.has THEN session.token
                 ELSE NoTok
        req == [Blank EXCEPT !.op = "check_auth", !.hdr = hdr, !.status = 200]
        rows == UserById(users, token.user_id)
        user == users[CHOOSE i \in rows : TRUE]
    IN  /\ UNCHANGED <<users, users_id_seq, session, search_cache,
                       search_history, play_history, liked_songs,
                       like_unique, like_pending>>
        /\ IF ~Truthy(token) \/ ~jwt_decode_ok(token, SECRET_KEY)
           THEN last' = [req EXCEPT !.result = "unauthenticated"]
           ELSE IF dbc = "down"
           THEN last' = [req EXCEPT !.db = dbc, !.result = "unauthenticated"]
           ELSE IF dbc = "fail"
           THEN last' = [req EXCEPT !.db = dbc, !.result = "unauthenticated",
                              !.leaked = 1]
           ELSE IF rows = {}
           THEN last' = [req EXCEPT !.db = dbc, !.result = "unauthenticated"]
           ELSE last' = [req EXCEPT !.db = dbc, !.result = "authenticated",
                              !.user = user.id]

-----------------------------------------------------------------------------
(* search_youtube: scrape of the public results page *)

Take(s, n) == SubSeq(s, 1, IF Len(s) < n THEN Len(s) ELSE n)

Range(s) == {s[i] : i \in 1..Len(s)}

(* list(set(...)): the distinct matches in an order the build decides *)
Orderings(S) ==
    {f \in [1..Cardinality(S) -> S] : \A i, j \in DOMAIN f : i # j => f[i] # f[j]}

UnknownTitle == <<"U", "n", "k", "n", "o", "w", "n", " ", "T", "i", "t", "l", "e">>

Combine(video_ids, page) ==
    [i \in 1..Len(video_ids) |->
        [id |-> video_ids[i],
         title |-> Take(IF i <= Len(page.titles) THEN page.titles[i]
                        ELSE UnknownTitle, TitleMaxLen),
         artist |-> IF i <= Len(page.channels) THEN page.channels[i]
                    ELSE "Unknown Artist",
         duration |-> IF i <= Len(page.durations) THEN page.durations[i]
                      ELSE "N/A"]]

(* an adapter that lets the failure of requests.get escape *)
search_youtube_Raises(page, max_results) ==
    IF page.kind # "html" THEN {[raised |-> TRUE, videos |-> <<>>]}
    ELSE {[raised |-> FALSE, videos |-> Combine(Take(order, max_results), page)] :
             order \in Orderings(Range(page.ids))}

search_youtube(page, max_results) ==
    IF page.kind # "html" THEN {[raised |-> FALSE, videos |-> <<>>]}
    ELSE {[raised |-> FALSE, videos |-> Combine(Take(order, max_results), page)] :
             order \in Orderings(Range(page.ids))}

Fallback ==
    <<[id |-> "dQw4w9WgXcQ",
       title |-> <<"N", "e", "v", "e", "r">>,
       artist |-> "Rick Astley", duration |-> "3:32"],
      [id |-> "kJQP7kiw5Fk",
       title |-> <<"D", "e", "s", "p", "a", "c", "i", "t", "o">>,
       artist |-> "Luis Fonsi", duration |-> "4:41"],
      [id |-> "09R8_2nJtjg",
       title |-> <<"S", "u", "g", "a", "r">>,
       artist |-> "Maroon 5", duration |-> "5:01"]>>

NoPage(kind) ==
    [kind |-> kind, ids |-> <<>>, titles |-> <<>>, channels |-> <<>>,
     durations |-> <<>>]

PageInputs ==
    {NoPage("neterr"), NoPage("timeout"), NoPage("html"),
     [kind |-> "html", ids |-> <<"v1", "v1", "v2">>, titles |-> << <<"t">> >>,
      channels |-> <<"c1", "c2">>, durations |-> <<>>],
     [kind |-> "html", ids |-> <<"v3">>,
      titles |-> <<Repeat("t", TitleMaxLen + 1)>>,
      channels |-> <<>>, durations |-> <<"3:00">>]}

PageLabel(page) ==
    IF page.kind # "html" THEN page.kind
    ELSE IF page.ids = <<>> THEN "nomatch" ELSE "html"

QueryInputs == {<<>>, <<" ">>, <<"a">>, <<"A", " ">>, <<"b">>}

UrlInputs == {<<>>, <<" ", "v">>, Repeat("v", VideoIdMaxLen + 1)}

-----------------------------------------------------------------------------
(* GET /api/search *)

(* a lookup that never finds the key *)
CacheHit_Never(cache, key) == key \in {}

CacheHit(cache, key) == key \in DOMAIN cache

CachePut(cache, key, videos) ==
    [k \in DOMAIN cache \cup {key} |-> IF k = key THEN videos ELSE cache[k]]

Search(q_in, hdr, page, dbc) ==
    LET query == Strip(q_in)
        cache_key == Lower(query)
        req == [Blank EXCEPT !.op = "search", !.q = q_in, !.hdr = hdr,
                             !.status = 200]
        token == IF Truthy(HeaderTokenReplace(hdr)) THEN HeaderTokenReplace(hdr)
                 ELSE IF session.has THEN session.token
                 ELSE NoTok
    IN  /\ Len(search_history) < MaxSearchHistory
        /\ UNCHANGED <<users, users_id_seq, session, play_history,
                       liked_songs, like_unique, like_pending>>
        /\ IF query = <<>>
           THEN /\ last' = req
                /\ UNCHANGED <<search_cache, search_history>>
           ELSE IF CacheHit(search_cache, cache_key)
           THEN /\ last' = [req EXCEPT !.body = search_cache[cache_key]]
                /\ UNCHANGED <<search_cache, search_history>>
           ELSE \E r \in search_youtube(page, SearchMaxResults) :
                  IF r.raised
                  THEN /\ last' = [req EXCEPT !.called = TRUE, !.raised = TRUE,
                                        !.page = PageLabel(page)]
                       /\ UNCHANGED <<search_cache, search_history>>
                  ELSE
                  LET videos == IF r.videos = <<>> THEN Fallback ELSE r.videos
                      res == [req EXCEPT !.called = TRUE,
                                         !.page = PageLabel(page),
                                         !.body = videos]
                  IN  /\ search_cache' = CachePut(search_cache, cache_key, videos)
                      /\ IF ~Truthy(token) \/ ~jwt_decode_ok(token, SECRET_KEY)
                         THEN /\ last' = res
                              /\ UNCHANGED search_history
                         ELSE IF dbc = "down"
                         THEN /\ last' = [res EXCEPT !.db = dbc]
                              /\ UNCHANGED search_history
                         ELSE IF dbc = "fail" \/ UserById(users, token.user_id) = {}
                         THEN /\ last' = [res EXCEPT !.db = dbc, !.leaked = 1]
                              /\ UNCHANGED search_history
                         ELSE /\ last' = [res EXCEPT !.db = dbc,
                                                !.user = token.user_id]
                              /\ search_history' =
                                     Append(search_history,
                                            [user_id |-> token.user_id,
                                             query |-> query,
                                             result_count |-> Len(videos)])

-----------------------------------------------------------------------------
(* POST /api/play, behind token_required *)

StreamUrl(video_id) ==
    <<"https://www.youtube.com/embed/">> \o video_id
        \o <<"?autoplay=1&controls=0&modestbranding=1&rel=0">>

Play(hdr, url_in, page, gdb, dbc) ==
    LET gate == token_required(hdr, session, users, gdb)
        req == [Blank EXCEPT !.op = "play", !.hdr = hdr, !.url = url_in,
                             !.gdb = gdb]
        video_id == Strip(url_in)
        ran == [req EXCEPT !.bodyRan = TRUE, !.user = gate.current_user.id]
    IN  /\ Len(play_history) < MaxPlayHistory
        /\ UNCHANGED <<users, users_id_seq, session, search_cache,
                       search_history, liked_songs, like_unique, like_pending>>
        /\ IF ~gate.pass
           THEN /\ last' = [req EXCEPT !.status = gate.status, !.msg = gate.msg,
                                       !.leaked = gate.leaked]
                /\ UNCHANGED play_history
           ELSE IF video_id = <<>>
           THEN /\ last' = [ran EXCEPT !.status = 400,
                                       !.msg = "No video ID provided"]
                /\ UNCHANGED play_history
           ELSE \E r \in search_youtube(page, PlayMaxResults) :
                  LET video_info ==
                          IF r.videos # <<>> THEN r.videos[1]
                          ELSE [title |-> UnknownTitle, artist |-> "Unknown Artist"]
                      res == [ran EXCEPT !.called = TRUE, !.db = dbc,
                                         !.page = PageLabel(page)]
                  IN  IF r.raised
                      THEN /\ last' = [res EXCEPT !.status = 500, !.raised = TRUE,
                                  !.msg = "ConnectionError: request failed"]
                           /\ UNCHANGED play_history
                      ELSE IF dbc = "down"
                      THEN /\ last' = [res EXCEPT !.status = 200,
                                              !.stream = StreamUrl(video_id)]
                           /\ UNCHANGED play_history
                      ELSE IF dbc = "fail"
                      THEN /\ last' = [res EXCEPT !.status = 500,
                                  !.msg = ErrorText("fail"), !.leaked = 1]
                           /\ UNCHANGED play_history
                      ELSE IF Len(video_id) > VideoIdMaxLen
                      THEN /\ last' = [res EXCEPT !.status = 500,
                                  !.msg = ErrorText("DataError"), !.leaked = 1]
                           /\ UNCHANGED play_history
                      ELSE /\ last' = [res EXCEPT !.status = 200,
                                              !.stream = StreamUrl(video_id)]
                           /\ play_history' =
                                  Append(play_history,
                                         [user_id |-> gate.current_user.id,
                                          video_id |-> video_id,
                                          title |-> video_info.title,
                                          artist |-> video_info.artist])

-----------------------------------------------------------------------------
(* GET /api/profile, behind token_required *)

CountRows(tbl, user_id) ==
    Cardinality({i \in 1..Len(tbl) : tbl[i].user_id = user_id})

Profile(hdr, gdb, dbc) ==
    LET gate == token_required(hdr, session, users, gdb)
        req == [Blank EXCEPT !.op = "profile", !.hdr = hdr, !.gdb = gdb]
        ran == [req EXCEPT !.bodyRan = TRUE, !.db = dbc,
                           !.user = gate.current_user.id]
    IN  /\ UNCHANGED <<users, users_id_seq, session, search_cache,
                       search_history, play_history, liked_songs,
                       like_unique, like_pending>>
        /\ IF ~gate.pass
           THEN last' = [req EXCEPT !.status = gate.status, !.msg = gate.msg,
                                    !.leaked = gate.leaked]
           ELSE IF dbc = "down"
           THEN last' = [ran EXCEPT !.status = 500,
                                    !.msg = "Database connection failed"]
           ELSE IF dbc = "fail"
           THEN last' = [ran EXCEPT !.status = 500,
                                    !.msg = "Failed to get profile",
                                    !.leaked = 1]
           ELSE last' = [ran EXCEPT !.status = 200,
                            !.stats = <<CountRows(play_history, gate.current_user.id),
                                        CountRows(search_history, gate.current_user.id)>>]

-----------------------------------------------------------------------------
(* The like registry: toggleLike and listLiked.  The toggle is a lookup    *)
(* followed by an insert or a delete, with no lock between the two, and    *)
(* the store may or may not carry a uniqueness constraint.                 *)

LikeUsers == {1, 2}

SongInputs == {"s1", "s2"}

LikedRows(tbl, user_id, song_id) ==
    {i \in 1..Len(tbl) : tbl[i].user_id = user_id /\ tbl[i].song_id = song_id}

RECURSIVE DeleteLiked(_, _, _)
DeleteLiked(tbl, user_id, song_id) ==
    IF tbl = <<>> THEN <<>>
    ELSE IF Head(tbl).user_id = user_id /\ Head(tbl).song_id = song_id
         THEN DeleteLiked(Tail(tbl), user_id, song_id)
         ELSE <<Head(tbl)>> \o DeleteLiked(Tail(tbl), user_id, song_id)

RECURSIVE listLiked(_, _)
listLiked(tbl, user_id) ==
    IF tbl = <<>> THEN <<>>
    ELSE IF Head(tbl).user_id = user_id
         THEN <<Head(tbl).song_id>> \o listLiked(Tail(tbl), user_id)
         ELSE listLiked(Tail(tbl), user_id)

RemoveAt(s, i) == SubSeq(s, 1, i - 1) \o SubSeq(s, i + 1, Len(s))

(* toggleLike, first statement: does a row exist for (user_id, song_id)? *)
ToggleLookup(user_id, song_id) ==
    /\ Len(like_pending) < MaxPending
    /\ like_pending' = Append(like_pending,
                              [user_id |-> user_id, song_id |-> song_id,
                               seen |-> LikedRows(liked_songs, user_id, song_id) # {}])
    /\ last' = [Blank EXCEPT !.op = "toggle_lookup", !.user = user_id,
                             !.song = song_id]
    /\ UNCHANGED <<users, users_id_seq, session, search_cache, search_history,
                   play_history, liked_songs, like_unique>>

(* toggleLike, second statement: delete the row seen, or insert one *)
ToggleApply(i) ==
    LET r == like_pending[i]
        res == [Blank EXCEPT !.op = "toggle", !.user = r.user_id,
                             !.song = r.song_id]
    IN  /\ i \in 1..Len(like_pending)
        /\ like_pending' = RemoveAt(like_pending, i)
        /\ UNCHANGED <<users, users_id_seq, session, search_cache,
                       search_history, play_history, like_unique>>
        /\ IF r.seen
           THEN /\ liked_songs' = DeleteLiked(liked_songs, r.user_id, r.song_id)
                /\ last' = [res EXCEPT !.result = "unliked"]
           ELSE IF like_unique /\ LikedRows(liked_songs, r.user_id, r.song_id) # {}
           THEN /\ UNCHANGED liked_songs
                /\ last' = [res EXCEPT !.result = "error"]
           ELSE /\ Len(liked_songs) < MaxLikedRows
                /\ liked_songs' = Append(liked_songs,
                                         [user_id |-> r.user_id,
                                          song_id |-> r.song_id])
                /\ last' = [res EXCEPT !.result = "liked"]

-----------------------------------------------------------------------------

Init ==
    /\ users = <<>>
    /\ users_id_seq = 1
    /\ session = NoSession
    /\ search_cache = [k \in {} |-> <<>>]
    /\ search_history = <<>>
    /\ play_history = <<>>
    /\ liked_songs = <<>>
    /\ like_unique = FALSE
    /\ like_pending = <<>>
    /\ last = Blank

Next ==
    \/ \E u \in UsernameInputs, p \in PasswordInputs, s \in Salts, d \in DbOutcomes :
           Register(u, p, s, d)
    \/ \E u \in UsernameInputs, p \in PasswordInputs, d \in DbOutcomes :
           Login(u, p, d)
    \/ Logout
    \/ \E h \in HeaderInputs, d \in DbOutcomes : CheckAuth(h, d)

Spec == Init /\ [][Next]_vars

(* The server after user "a" has registered and logged out: the state the  *)
(* gated handlers and the search handler are explored from.                *)

InitRegistered ==
    /\ users = <<[id |-> 1, username |-> <<"a">>,
                  password_hash |-> generate_password_hash(Pw1, 11)]>>
    /\ users_id_seq = 2
    /\ session = NoSession
    /\ search_cache = [k \in {} |-> <<>>]
    /\ search_history = <<>>
    /\ play_history = <<>>
    /\ liked_songs = <<>>
    /\ like_unique = FALSE
    /\ like_pending = <<>>
    /\ last = [Blank EXCEPT !.op = "logout", !.status = 200,
                     !.msg = "Logged out successfully"]

LoginKnown ==
    \E p \in {Pw1, Pw2}, d \in DbOutcomes : Login(<<"a">>, p, d)

NextGate ==
    \/ LoginKnown
    \/ Logout
    \/ \E h \in HeaderInputs, u \in UrlInputs, pg \in PageInputs,
          g \in DbOutcomes, d \in DbOutcomes : Play(h, u, pg, g, d)
    \/ \E h \in HeaderInputs, g \in DbOutcomes, d \in DbOutcomes :
          Profile(h, g, d)

SpecGate == InitRegistered /\ [][NextGate]_vars

NextSearch ==
    \/ LoginKnown
    \/ Logout
    \/ \E q \in QueryInputs, h \in SearchHeaderInputs, pg \in PageInputs,
          d \in DbOutcomes : Search(q, h, pg, d)

SpecSearch == InitRegistered /\ [][NextSearch]_vars

(* Accounts, sessions and both token checks together: register, login,    *)
(* logout, check-auth and a handler behind token_required, from the empty  *)
(* server.                                                                 *)

NextToken ==
    \/ \E u \in {<<"a">>, <<"b">>}, p \in {Pw1, Pw2}, d \in DbOutcomes :
           Register(u, p, 11, d)
    \/ \E u \in {<<"a">>, <<"b">>}, p \in {Pw1, Pw2}, d \in DbOutcomes :
           Login(u, p, d)
    \/ Logout
    \/ \E h \in HeaderInputs, d \in DbOutcomes : CheckAuth(h, d)
    \/ \E h \in HeaderInputs, g \in DbOutcomes, d \in DbOutcomes :
           Profile(h, g, d)

SpecToken == Init /\ [][NextToken]_vars

InitLike ==
    /\ users = <<>>
    /\ users_id_seq = 1
    /\ session = NoSession
    /\ search_cache = [k \in {} |-> <<>>]
    /\ search_history = <<>>
    /\ play_history = <<>>
    /\ liked_songs = <<>>
    /\ like_unique \in BOOLEAN
    /\ like_pending = <<>>
    /\ last = Blank

NextLike ==
    \/ \E u \in LikeUsers, sg \in SongInputs : ToggleLookup(u, sg)
    \/ \E i \in 1..MaxPending : ToggleApply(i)

SpecLike == InitLike /\ [][NextLike]_vars

-----------------------------------------------------------------------------
(* C1: for every username, a register with valid input that reaches the    *)
(* store succeeds and adds one row when the username is free, and is       *)
(* answered 400 'Username already exists' adding no row when it is taken;  *)
(* the users table never holds two rows with the same username.            *)

NoDuplicateUsernames ==
    \A i, j \in 1..Len(users) :
        i # j => users[i].username # users[j].username

ValidRegisterInput(r) ==
    /\ Strip(r.username) # <<>>
    /\ Len(Strip(r.username)) <= UsernameMaxLen
    /\ Len(Strip(r.password)) >= MinPasswordLen

RegisterReachedStore ==
    /\ last'.op = "register"
    /\ last'.db = "ok"
    /\ ValidRegisterInput(last')

RegisterStoreStep ==
    RegisterReachedStore =>
        IF \E i \in 1..Len(users) : users[i].username = Strip(last'.username)
        THEN /\ last'.status = 400
             /\ last'.msg = "Username already exists"
             /\ last'.token = NoTok
             /\ users' = users
        ELSE /\ last'.status = 200
             /\ Len(users') = Len(users) + 1
             /\ SubSeq(users', 1, Len(users)) = users
             /\ users'[Len(users')].username = Strip(last'.username)

C1_RegisterUnique ==
    /\ []NoDuplicateUsernames
    /\ [][RegisterStoreStep]_vars

C1_Witness ==
    /\ last.op = "register"
    /\ last.db = "ok"
    /\ last.status = 400
    /\ last.msg = "Username already exists"
    /\ Len(users) >= 1

-----------------------------------------------------------------------------
(* C2: a login with non-empty username and password on a reachable         *)
(* database is answered 401 when the username has no row or the password   *)
(* does not match the stored hash; then no token is issued and the session *)
(* is unchanged.  A token is issued only when the row exists and the       *)
(* password matches its hash.                                              *)

PasswordMatchesRow(row, password) ==
    Digest(row.password_hash.salt, password) = row.password_hash.digest

LoginCredentialsGood(tbl, r) ==
    \E i \in 1..Len(tbl) :
        /\ tbl[i].username = Strip(r.username)
        /\ PasswordMatchesRow(tbl[i], Strip(r.password))

LoginStep ==
    (last'.op = "login" /\ Strip(last'.username) # <<>>
                        /\ Strip(last'.password) # <<>>) =>
        /\ (last'.db = "ok" /\ ~LoginCredentialsGood(users, last')) =>
               /\ last'.status = 401
               /\ last'.token = NoTok
               /\ session' = session
        /\ last'.token # NoTok =>
               /\ LoginCredentialsGood(users, last')
               /\ jwt_decode_ok(last'.token, SECRET_KEY)

C2_LoginRejects == [][LoginStep]_vars

C2_Witness ==
    /\ last.op = "login"
    /\ last.db = "ok"
    /\ last.status = 401
    /\ \E i \in 1..Len(users) : users[i].username = Strip(last.username)

-----------------------------------------------------------------------------
(* The token a request carries: the Bearer token of the Authorization      *)
(* header or, failing that, the token of the cookie session.               *)

CarriedToken(hdr, sess) ==
    IF hdr.scheme = "Bearer" /\ hdr.tok.kind # "empty" THEN hdr.tok
    ELSE IF sess.has THEN sess.token
    ELSE NoTok

CorrectlySigned(tok) ==
    /\ tok.kind = "jwt"
    /\ tok.sig = [k |-> SECRET_KEY, uid |-> tok.user_id, un |-> tok.username]

NamesExistingUser(tok, tbl) ==
    \E i \in 1..Len(tbl) : tbl[i].id = tok.user_id

(* C3: the body of play and profile runs only for a request carrying a     *)
(* token correctly signed with the server's secret whose user_id names an  *)
(* existing user row; every other request is answered 401 and writes       *)
(* nothing to play_history.                                                *)

GateStep ==
    last'.op \in {"play", "profile"} =>
        LET t == CarriedToken(last'.hdr, session)
            valid == CorrectlySigned(t) /\ NamesExistingUser(t, users)
        IN  /\ last'.bodyRan => valid
            /\ ~valid => /\ last'.status = 401
                         /\ ~last'.bodyRan
                         /\ play_history' = play_history
            /\ play_history' # play_history => last'.bodyRan

C3_GateRequiresValidToken == [][GateStep]_vars

C3_Witness ==
    /\ last.op = "play"
    /\ last.status = 401
    /\ last.gdb = "ok"
    /\ Strip(last.url) # <<>>
    /\ CorrectlySigned(last.hdr.tok)
    /\ ~NamesExistingUser(last.hdr.tok, users)

-----------------------------------------------------------------------------
(* C4: whatever the scrape does (network error, timeout, unparsable page,  *)
(* zero matches), search_youtube returns a list and /api/search answers    *)
(* 200 with the scraped results, the empty list or the three-track         *)
(* fallback list; a provider failure never surfaces as an exception or an  *)
(* error status.                                                           *)

ScrapedLists ==
    {r.videos : r \in UNION {search_youtube(pg, SearchMaxResults) : pg \in PageInputs}}

C4_SearchNeverFails ==
    last.op = "search" =>
        /\ last.status = 200
        /\ ~last.raised
        /\ last.body \in {<<>>, Fallback} \cup ScrapedLists
        /\ (last.called /\ last.page \in {"neterr", "timeout", "nomatch"})
               => last.body = Fallback

C4_Witness ==
    /\ last.op = "search"
    /\ last.called
    /\ last.page = "neterr"
    /\ last.status = 200
    /\ last.body = Fallback

-----------------------------------------------------------------------------
(* C5: every search with a non-empty query that presents a valid token     *)
(* while the database is reachable appends exactly one search_history row  *)
(* with the token's user id, the query text and the number of results; a   *)
(* search without a valid token appends none.  Stated for requests whose   *)
(* Authorization header is absent or a Bearer header.                      *)

SearchHistoryStep ==
    (/\ last'.op = "search"
     /\ Strip(last'.q) # <<>>
     /\ last'.hdr.scheme \in {"none", "Bearer"}
     /\ last'.db \notin {"down", "fail"}) =>
        LET t == CarriedToken(last'.hdr, session)
        IN  IF CorrectlySigned(t) /\ NamesExistingUser(t, users)
            THEN search_history' =
                     Append(search_history,
                            [user_id |-> t.user_id, query |-> Strip(last'.q),
                             result_count |-> Len(last'.body)])
            ELSE search_history' = search_history

C5_EverySearchLogged == [][SearchHistoryStep]_vars

-----------------------------------------------------------------------------
(* C6: a failed history write never changes the response: an authenticated *)
(* play with a non-empty video id is answered with the success response    *)
(* and its stream_url, and a search is answered 200 with its list.         *)

C6_HistoryFailureSwallowed ==
    /\ (last.op = "play" /\ last.bodyRan /\ Strip(last.url) # <<>>) =>
           /\ last.status = 200
           /\ last.stream = StreamUrl(Strip(last.url))
    /\ last.op = "search" => last.status = 200

-----------------------------------------------------------------------------
(* C7: register, login, play or profile with valid input and a correctly   *)
(* signed token, made while the database is unreachable or a statement     *)
(* fails, is answered 500 with a fixed generic message carrying no text of *)
(* the underlying error.                                                   *)

GenericMessages ==
    {"Database connection failed", "Registration failed", "Login failed",
     "Failed to get profile", "Internal server error"}

DatabaseFailed(r) ==
    \/ r.gdb \in {"down", "fail"}
    \/ r.db \in {"down", "fail"}
    \/ r.msg \in ErrorTexts

ValidRequest(r, sess) ==
    CASE r.op \in {"register", "login"} ->
             Strip(r.username) # <<>> /\ Len(Strip(r.password)) >= MinPasswordLen
      [] r.op = "play" ->
             Strip(r.url) # <<>> /\ CorrectlySigned(CarriedToken(r.hdr, sess))
      [] r.op = "profile" ->
             CorrectlySigned(CarriedToken(r.hdr, sess))
      [] OTHER -> FALSE

C7_DatabaseErrorsGeneric500 ==
    (ValidRequest(last, session) /\ DatabaseFailed(last)) =>
        /\ last.status = 500
        /\ last.msg \in GenericMessages
        /\ last.msg \notin ErrorTexts

-----------------------------------------------------------------------------
(* C9: every database connection a request opens is closed before the      *)
(* request returns, on every path: no finished request has left a          *)
(* connection open.                                                        *)

C9_ConnectionsReleased == last.leaked = 0

-----------------------------------------------------------------------------
(* C10: once a search for a non-empty query has completed, the cache holds *)
(* an entry for its lowercase form that is never removed or replaced, and  *)
(* every later search for a query equal to it ignoring case returns that   *)
(* list without calling the provider, the fallback list included.          *)

EqualIgnoringCase(a, b) ==
    /\ Len(a) = Len(b)
    /\ \A i \in 1..Len(a) : LowerChar(a[i]) = LowerChar(b[i])

SearchCacheStep ==
    /\ \A k \in DOMAIN search_cache :
           k \in DOMAIN search_cache' /\ search_cache'[k] = search_cache[k]
    /\ (last'.op = "search" /\ Strip(last'.q) # <<>>) =>
           /\ \E k \in DOMAIN search_cache' :
                  /\ EqualIgnoringCase(k, Strip(last'.q))
                  /\ last'.body = search_cache'[k]
           /\ \A k \in DOMAIN search_cache :
                  EqualIgnoringCase(k, Strip(last'.q)) =>
                      /\ ~last'.called
                      /\ last'.body = search_cache[k]

C10_CacheEntryPermanent == [][SearchCacheStep]_vars

C10_Witness ==
    /\ last.op = "search"
    /\ last.q = <<"A", " ">>
    /\ ~last.called
    /\ last.body = Fallback
    /\ <<"a">> \in DOMAIN search_cache

-----------------------------------------------------------------------------
(* C8: toggleLike inserts the row when (user, song) is absent and reports  *)
(* Liked, deletes it when present and reports Unliked, so that the song is *)
(* listed for the user exactly after a Liked; and at most one row per      *)
(* (user_id, song_id) exists at any time.                                  *)

LikedRowsUnique ==
    \A i, j \in 1..Len(liked_songs) :
        i # j => \/ liked_songs[i].user_id # liked_songs[j].user_id
                 \/ liked_songs[i].song_id # liked_songs[j].song_id

ToggleStep ==
    last'.op = "toggle" =>
        IF LikedRows(liked_songs, last'.user, last'.song) = {}
        THEN /\ last'.result = "liked"
             /\ Cardinality(LikedRows(liked_songs', last'.user, last'.song)) = 1
        ELSE /\ last'.result = "unliked"
             /\ LikedRows(liked_songs', last'.user, last'.song) = {}

C8_ToggleLike ==
    /\ []LikedRowsUnique
    /\ [][ToggleStep]_vars

-----------------------------------------------------------------------------
(* C11: a Bearer token in the Authorization header is accepted by          *)
(* token_required and by check-auth exactly when it is correctly signed    *)
(* with the secret, its user row exists and the database answers, whatever *)
(* the cookie session holds.  Every token the server issues is such a      *)
(* token of an existing row, rows are never removed, and logout clears the *)
(* session only; so a token issued earlier stays accepted after any        *)
(* register, login and logout.                                             *)

BearerRequest(r) ==
    /\ r.op \in {"profile", "check_auth"}
    /\ r.hdr.scheme = "Bearer"
    /\ r.hdr.tok.kind # "empty"

Accepted(r) ==
    IF r.op = "check_auth" THEN r.result = "authenticated" ELSE r.bodyRan

DatabaseAnswered(r) ==
    IF r.op = "check_auth" THEN r.db = "ok" ELSE r.gdb = "ok"

BearerStep ==
    BearerRequest(last') =>
        /\ Accepted(last') <=>
               /\ CorrectlySigned(last'.hdr.tok)
               /\ NamesExistingUser(last'.hdr.tok, users)
               /\ DatabaseAnswered(last')
        /\ session' = session

IssueStep ==
    last'.token # NoTok =>
        /\ last'.op \in {"register", "login"}
        /\ CorrectlySigned(last'.token)
        /\ NamesExistingUser(last'.token, users')
        /\ session' = [has |-> TRUE, user_id |-> last'.token.user_id,
                       token |-> last'.token,
                       username |-> last'.token.username]

RowsKeptStep ==
    /\ Len(users') >= Len(users)
    /\ SubSeq(users', 1, Len(users)) = users

LogoutStep ==
    last'.op = "logout" =>
        /\ session' = [has |-> FALSE, user_id |-> 0, token |-> NoTok,
                       username |-> <<>>]
        /\ users' = users
        /\ last'.status = 200

C11_BearerIndependentOfSession ==
    [][BearerStep /\ IssueStep /\ RowsKeptStep /\ LogoutStep]_vars

C11_Witness ==
    /\ last.op = "profile"
    /\ last.bodyRan
    /\ last.hdr = Bearer(jwt_encode(1, <<"a">>, SECRET_KEY))
    /\ \E i \in 1..Len(users) : users[i].id = 1 /\ users[i].username = <<"a">>
    /\ ~session.has

====
